---- MODULE Spec2Model ----
(***************************************************************************)
(* Model of nkms.crypto.keyring.KeyRing: a facade that owns a signing      *)
(* keypair and an encrypting keypair and offers sign / verify / encrypt /  *)
(* decrypt / secure_random / derive_path_key.                              *)
(*                                                                         *)
(* Byte strings are finite sequences of small naturals.  The primitives    *)
(* the facade delegates to (the keypair classes, the proxy re-encryption   *)
(* algorithm, KECCAK256, the random source) are bounded stand-ins that     *)
(* keep the properties the primitives are specified to have: KECCAK256 is  *)
(* a fixed-width function without collisions on the bounded inputs, a      *)
(* signature verifies only for the digest and key it was made with, a      *)
(* ciphertext opens only under the recipient key and only if untouched.    *)
(***************************************************************************)
EXTENDS Integers, Sequences, FiniteSets, TLC

(* ---------------------------------------------------------------- bounds *)
\* longest message / plaintext / path a caller supplies
MaxLen == 1
\* largest length asked of secure_random
MaxRandom == 1

\* the KeyRing instances of the model
KeyRings == {1, 2}
\* byte values: entropy is binary, caller-supplied strings are runs of 0
Bit == {0, 1}
BytesOfLen(n) == [1..n -> Bit]
Messages == UNION {[1..i -> {0}] : i \in 0..MaxLen}
\* valid private scalars (fixed size)
PrivKeys == {<<0, 1>>, <<1, 0>>}
KeyLen == Len(<<0, 1>>)
PubLen == KeyLen + 1
\* randomness the signature scheme and the cipher draw per call
Nonces == {0, 1}

(* ------------------------------------------------ python values, results *)
\* an optional argument: None, or bytes that were passed explicitly
None == [given |-> FALSE, bytes |-> <<>>]
Some(b) == [given |-> TRUE, bytes |-> b]
\* python truthiness of an optional bytes argument: `not x`
not_(x) == (~x.given) \/ (x.bytes = <<>>)
\* a call either returns a value or raises
Ret(v) == [raised |-> "None", value |-> v]
Raise(e) == [raised |-> e, value |-> <<>>]

(* ------------------------------------------------------------ primitives *)
RECURSIVE Num(_)
\* the bit string 1 ++ s read as a binary number (distinct s, distinct number)
Num(s) == IF s = <<>> THEN 1 ELSE 2 * Num(SubSeq(s, 1, Len(s) - 1)) + s[Len(s)]
HashMod == 16 * 16
\* sha3.keccak_256(data).digest(): fixed-width digest, two symbols of 0..15
keccak_256(data) ==
    LET h == (Num(data) * 37 + 11) % HashMod
    IN  <<h \div 16, h % 16>>
DigestLen == Len(keccak_256(<<>>))

\* public key of a signing private key
SigPub(priv) == <<2>> \o [i \in 1..Len(priv) |-> (priv[i] * 3 + i) % 4]
\* public key of an encrypting private key
EncPub(priv) == <<3>> \o [i \in 1..Len(priv) |-> (priv[i] * 3 + 2 * i) % 4]

\* SigningKeypair(privkey): uses privkey if given, else a freshly generated one
SigningKeypair(privkey, fresh) ==
    LET p == IF privkey.given THEN privkey.bytes ELSE fresh
    IN  [priv_key |-> p, pub_key |-> SigPub(p)]
\* EncryptingKeypair(privkey)
EncryptingKeypair(privkey, fresh) ==
    LET p == IF privkey.given THEN privkey.bytes ELSE fresh
    IN  [priv_key |-> p, pub_key |-> EncPub(p)]

\* the process-wide default proxy re-encryption algorithm
default_algorithm == "bbs98"
pre_from_algorithm(alg) == alg
\* pre.priv2pub(key): public point of a derived scalar
priv2pub(pre_alg, key) == <<4>> \o [i \in 1..Len(key) |-> (key[i] * 5 + 1) % 16]

\* SignatureScheme.sign(digest, priv) with the scheme's per-call randomness n
SchemeSign(digest, priv, n) ==
    <<n>> \o [i \in 1..Len(digest) |-> (digest[i] + n) % 16]
          \o [i \in 1..Len(priv) |-> (SigPub(priv)[i + 1] + n) % 4]
SigLen == 1 + DigestLen + KeyLen

\* SigningKeypair.sign(msghash)
SigningKeypair_sign(kp, msghash, n) == SchemeSign(msghash, kp.priv_key, n)

\* SigningKeypair.verify(msghash, signature, pubkey): malformed signature or
\* key is an error, a well-formed signature that does not match is False
SigningKeypair_verify(kp, msghash, signature, pubkey) ==
    IF Len(signature) # SigLen \/ Len(pubkey) # PubLen
    THEN Raise("InvalidSignatureOrKey")
    ELSE Ret(\E priv \in PrivKeys, n \in Nonces :
                /\ SigPub(priv) = pubkey
                /\ SchemeSign(msghash, priv, n) = signature)

TagLen == DigestLen
\* authentication tag of the cipher, bound to recipient key, nonce, plaintext
CipherTag(plaintext, pubkey, n) ==
    LET d == keccak_256(<<n>> \o plaintext)
    IN  [i \in 1..TagLen |-> 2 + ((d[i] + pubkey[i + 1]) % 16)]
\* body of the ciphertext: the plaintext under a keystream
CipherBody(plaintext, pubkey, n) ==
    [i \in 1..Len(plaintext) |->
        (plaintext[i] + n + pubkey[((i - 1) % KeyLen) + 2]) % 2]
\* EncryptingKeypair.encrypt(plaintext, pubkey) with the cipher's fresh nonce
EncryptingKeypair_encrypt(kp, plaintext, pubkey, n) ==
    <<n>> \o CipherBody(plaintext, pubkey, n) \o CipherTag(plaintext, pubkey, n)

\* EncryptingKeypair.decrypt(ciphertext): parse the framing, strip the
\* keystream, check the tag; any failure is DecryptionFailed
EncryptingKeypair_decrypt(kp, ciphertext) ==
    IF Len(ciphertext) < 1 + TagLen THEN Raise("DecryptionFailed")
    ELSE LET n == ciphertext[1]
             blen == Len(ciphertext) - 1 - TagLen
             p == [i \in 1..blen |->
                     (ciphertext[i + 1] + n
                        + kp.pub_key[((i - 1) % KeyLen) + 2]) % 2]
         IN  IF n \in Nonces
                /\ EncryptingKeypair_encrypt(kp, p, kp.pub_key, n) = ciphertext
             THEN Ret(p)
             ELSE Raise("DecryptionFailed")

\* nacl.utils.random(size) = os.urandom(size): size bytes of the entropy
\* stream, an error for a negative size
random(size, entropy) ==
    IF size < 0 THEN Raise("InvalidLength")
    ELSE Ret(SubSeq(entropy, 1, size))

(* ----------------------------------------------------------------- state *)
VARIABLES
    sig_keypair,    \* KeyRing -> its SigningKeypair
    enc_keypair,    \* KeyRing -> its EncryptingKeypair
    pre,            \* KeyRing -> its proxy re-encryption algorithm
    constructed,    \* history: the keys each KeyRing had right after __init__
    last,           \* history: the most recent call, its arguments and outcome
    kept            \* history: one earlier sign/encrypt/derive call

vars == <<sig_keypair, enc_keypair, pre, constructed, last, kept>>

(* ------------------------------------------------------------- accessors *)
sig_pubkey(k) == sig_keypair[k].pub_key
sig_privkey(k) == sig_keypair[k].priv_key
enc_pubkey(k) == enc_keypair[k].pub_key
enc_privkey(k) == enc_keypair[k].priv_key

Keys(k) == [sig_pubkey |-> sig_pubkey(k), sig_privkey |-> sig_privkey(k),
            enc_pubkey |-> enc_pubkey(k), enc_privkey |-> enc_privkey(k)]

(* ------------------------------------------------------------ operations *)
\* a sign that hands the message itself to the keypair, undigested
sign_undigested(k, message, n) ==
    Ret(SigningKeypair_sign(sig_keypair[k], message, n))

\* KeyRing.sign(message)
sign(k, message, n) ==
    LET msg_digest == keccak_256(message)
    IN  Ret(SigningKeypair_sign(sig_keypair[k], msg_digest, n))

\* a verify that always checks against the KeyRing's own key
verify_own_key_only(k, message, signature, pubkey) ==
    LET msg_digest == keccak_256(message)
    IN  SigningKeypair_verify(sig_keypair[k], msg_digest, signature,
                              sig_keypair[k].pub_key)
\* a verify that turns a failed check into an error
verify_raise_on_mismatch(k, message, signature, pubkey) ==
    LET pk == IF not_(pubkey) THEN sig_keypair[k].pub_key ELSE pubkey.bytes
        msg_digest == keccak_256(message)
        r == SigningKeypair_verify(sig_keypair[k], msg_digest, signature, pk)
    IN  IF r.raised = "None" /\ ~r.value THEN Raise("InvalidSignatureOrKey") ELSE r

\* KeyRing.verify(message, signature, pubkey=None)
verify(k, message, signature, pubkey) ==
    LET pk == IF not_(pubkey) THEN sig_keypair[k].pub_key ELSE pubkey.bytes
        msg_digest == keccak_256(message)
    IN  SigningKeypair_verify(sig_keypair[k], msg_digest, signature, pk)

\* an encrypt whose default recipient is the signing key
encrypt_default_sig_key(k, plaintext, pubkey, n) ==
    LET pk == IF not_(pubkey) THEN sig_keypair[k].pub_key ELSE pubkey.bytes
    IN  Ret(EncryptingKeypair_encrypt(enc_keypair[k], plaintext, pk, n))

\* KeyRing.encrypt(plaintext, pubkey=None)
encrypt(k, plaintext, pubkey, n) ==
    LET pk == IF not_(pubkey) THEN enc_keypair[k].pub_key ELSE pubkey.bytes
    IN  Ret(EncryptingKeypair_encrypt(enc_keypair[k], plaintext, pk, n))

\* a decrypt that swallows the failure and hands back the input
decrypt_swallow(k, ciphertext) ==
    LET r == EncryptingKeypair_decrypt(enc_keypair[k], ciphertext)
    IN  IF r.raised = "None" THEN r ELSE Ret(ciphertext)

\* KeyRing.decrypt(ciphertext)
decrypt(k, ciphertext) == EncryptingKeypair_decrypt(enc_keypair[k], ciphertext)

\* a secure_random that is off by one
secure_random_off_by_one(k, length, entropy) == random(length + 1, entropy)

\* KeyRing.secure_random(length)
secure_random(k, length, entropy) == random(length, entropy)

\* a derivation that hashes path || key instead of key || path
derive_path_first(k, path, is_pub) ==
    LET key == keccak_256(path \o enc_privkey(k))
    IN  Ret(IF is_pub THEN priv2pub(pre[k], key) ELSE key)
\* a derivation rooted in the signing key
derive_from_sig_key(k, path, is_pub) ==
    LET key == keccak_256(sig_privkey(k) \o path)
    IN  Ret(IF is_pub THEN priv2pub(pre[k], key) ELSE key)

\* KeyRing.derive_path_key(path, is_pub=True)
derive_path_key(k, path, is_pub) ==
    LET key == keccak_256(enc_privkey(k) \o path)
    IN  Ret(IF is_pub THEN priv2pub(pre[k], key) ELSE key)

(* ------------------------------------------------------- initial states *)
\* KeyRing.__init__(sig_privkey=None, enc_privkey=None): KeyRing 1 is built
\* from supplied private keys, every other KeyRing generates fresh ones
SuppliedKey == <<0, 1>>
Init ==
    /\ \E fresh_sig \in PrivKeys, fresh_enc \in PrivKeys :
          /\ sig_keypair = [k \in KeyRings |->
                SigningKeypair(IF k = 1 THEN Some(SuppliedKey) ELSE None,
                               fresh_sig)]
          /\ enc_keypair = [k \in KeyRings |->
                EncryptingKeypair(IF k = 1 THEN Some(SuppliedKey) ELSE None,
                                  fresh_enc)]
    /\ pre = [k \in KeyRings |-> pre_from_algorithm(default_algorithm)]
    /\ constructed = [k \in KeyRings |-> Keys(k)]
    /\ last = [op |-> "init"]
    /\ kept = [op |-> "init"]

(* --------------------------------------------------------------- history *)
Producing(r) == r.op \in {"sign", "encrypt", "derive_path_key"}
\* what the observer may hold after the step: the earlier call it held, or
\* the call made just before this one
Keepable == {kept} \cup (IF Producing(last) THEN {last} ELSE {})
Keep == kept' \in Keepable

Flip(s, i) == [s EXCEPT ![i] = IF @ % 2 = 0 THEN @ + 1 ELSE @ - 1]
\* byte strings made from s by flipping one position or cutting the end off
Tampered(s) ==
    {Flip(s, i) : i \in 1..Len(s)}
      \cup (IF s = <<>> THEN {} ELSE {SubSeq(s, 1, Len(s) - 1)})

\* public keys a caller may pass to verify: nothing, empty bytes, the
\* signing keys of the KeyRings, a key cut short
VerifyPubkeys ==
    {None, Some(<<>>)} \cup {Some(sig_pubkey(j)) : j \in KeyRings}
       \cup {Some(SubSeq(sig_pubkey(1), 1, PubLen - 1))}
EncryptPubkeys ==
    {None, Some(<<>>)} \cup {Some(enc_pubkey(j)) : j \in KeyRings}
AccessorNames == {"sig_pubkey", "sig_privkey", "enc_pubkey", "enc_privkey"}

(* --------------------------------------------------------------- actions *)
Call_sign(k, message, n) ==
    /\ last' = [op |-> "sign", k |-> k, message |-> message,
                result |-> sign(k, message, n)]
    /\ UNCHANGED <<sig_keypair, enc_keypair, pre, constructed>>

\* a verify that remembers the key it was given as the KeyRing's own
Call_verify_caching(k, message, signature, pubkey) ==
    /\ last' = [op |-> "verify", k |-> k, message |-> message,
                signature |-> signature, pubkey |-> pubkey,
                result |-> verify(k, message, signature, pubkey)]
    /\ sig_keypair' = IF not_(pubkey) THEN sig_keypair
                      ELSE [sig_keypair EXCEPT ![k].pub_key = pubkey.bytes]
    /\ UNCHANGED <<enc_keypair, pre, constructed>>

Call_verify(k, message, signature, pubkey) ==
    /\ last' = [op |-> "verify", k |-> k, message |-> message,
                signature |-> signature, pubkey |-> pubkey,
                result |-> verify(k, message, signature, pubkey)]
    /\ UNCHANGED <<sig_keypair, enc_keypair, pre, constructed>>

Call_encrypt(k, plaintext, pubkey, n) ==
    /\ last' = [op |-> "encrypt", k |-> k, plaintext |-> plaintext,
                pubkey |-> pubkey, result |-> encrypt(k, plaintext, pubkey, n)]
    /\ UNCHANGED <<sig_keypair, enc_keypair, pre, constructed>>

Call_decrypt(k, ciphertext) ==
    /\ last' = [op |-> "decrypt", k |-> k, ciphertext |-> ciphertext,
                result |-> decrypt(k, ciphertext)]
    /\ UNCHANGED <<sig_keypair, enc_keypair, pre, constructed>>

Call_secure_random(k, length, entropy) ==
    /\ last' = [op |-> "secure_random", k |-> k, length |-> length,
                result |-> secure_random(k, length, entropy)]
    /\ UNCHANGED <<sig_keypair, enc_keypair, pre, constructed>>

Call_derive_path_key(k, path, is_pub) ==
    /\ last' = [op |-> "derive_path_key", k |-> k, path |-> path,
                is_pub |-> is_pub, result |-> derive_path_key(k, path, is_pub)]
    /\ UNCHANGED <<sig_keypair, enc_keypair, pre, constructed>>

Call_accessor(k, name) ==
    /\ last' = [op |-> "accessor", k |-> k, name |-> name,
                result |-> Ret(Keys(k)[name])]
    /\ UNCHANGED <<sig_keypair, enc_keypair, pre, constructed>>

SignStep ==
    \E k \in KeyRings, m \in Messages, n \in Nonces : Call_sign(k, m, n) /\ Keep
\* the signature passed in is one an earlier sign returned, as returned or
\* tampered with; the observer holds on to that sign call
VerifyStep ==
    \E src \in {r \in Keepable : r.op = "sign"} :
      \E k \in KeyRings, m \in Messages, pk \in VerifyPubkeys,
         s \in {src.result.value} \cup Tampered(src.result.value) :
        Call_verify(k, m, s, pk) /\ kept' = src
EncryptStep ==
    \E k \in KeyRings, p \in Messages, n \in Nonces, pk \in EncryptPubkeys :
      Call_encrypt(k, p, pk, n) /\ Keep
DecryptStep ==
    \E src \in {r \in Keepable : r.op = "encrypt"} :
      \E k \in KeyRings,
         c \in {src.result.value} \cup Tampered(src.result.value) :
        Call_decrypt(k, c) /\ kept' = src
RandomStep ==
    \E k \in KeyRings, length \in -2..MaxRandom,
       entropy \in BytesOfLen(MaxRandom + 1) :
      Call_secure_random(k, length, entropy) /\ Keep
DeriveStep ==
    \E k \in KeyRings, path \in Messages, is_pub \in BOOLEAN :
      Call_derive_path_key(k, path, is_pub) /\ Keep
AccessorStep ==
    \E k \in KeyRings, name \in AccessorNames : Call_accessor(k, name) /\ Keep

Next ==
    \/ SignStep
    \/ VerifyStep
    \/ EncryptStep
    \/ DecryptStep
    \/ RandomStep
    \/ DeriveStep
    \/ AccessorStep

Spec == Init /\ [][Next]_vars

(* ================================================================ claims *)
Returned(r, v) == r.raised = "None" /\ r.value = v
Raised(r, e) == r.raised = e
KeysAsConstructed == \A k \in KeyRings : Keys(k) = constructed[k]

\* the last call verified, for the same KeyRing and message, exactly the
\* signature an earlier sign returned, with pubkey omitted or the own key
SignThenVerify ==
    /\ last.op = "verify" /\ kept.op = "sign"
    /\ kept.k = last.k /\ kept.message = last.message
    /\ last.signature = kept.result.value
    /\ last.pubkey \in {None, Some(sig_pubkey(last.k))}

\* C1: verify(m, sign(m)) returns true, with the pubkey omitted and with the
\* KeyRing's own signing public key, whatever was called in between
C1_SignVerifyRoundTrip == SignThenVerify => Returned(last.result, TRUE)
C1_Witness ==
    /\ SignThenVerify /\ last.pubkey = None /\ last.message # <<>>
    /\ Returned(last.result, TRUE)

\* the last call decrypted, on the same KeyRing, exactly the ciphertext an
\* earlier encrypt returned for the own key or for an omitted pubkey
EncryptThenDecrypt ==
    /\ last.op = "decrypt" /\ kept.op = "encrypt"
    /\ kept.k = last.k
    /\ kept.pubkey \in {None, Some(enc_pubkey(last.k))}
    /\ last.ciphertext = kept.result.value

\* C2: decrypt(encrypt(p, pk)) returns exactly p when pk is the KeyRing's own
\* encrypting public key or is omitted
C2_EncryptDecryptRoundTrip ==
    EncryptThenDecrypt => Returned(last.result, kept.plaintext)
C2_Witness ==
    /\ EncryptThenDecrypt /\ kept.pubkey = None /\ kept.plaintext # <<>>
    /\ Returned(last.result, kept.plaintext)

\* two derivations with the same encrypting private key, path and flag
SameDerivation ==
    /\ last.op = "derive_path_key" /\ kept.op = "derive_path_key"
    /\ constructed[last.k].enc_privkey = constructed[kept.k].enc_privkey
    /\ last.path = kept.path /\ last.is_pub = kept.is_pub

\* C3: two calls of derive_path_key with the same encrypting private key, path
\* and want_public flag return identical bytes, on one KeyRing or on two
\* KeyRings whose signing keys differ, whatever was called in between
C3_DeriveDeterministic == SameDerivation => last.result = kept.result
C3_Witness ==
    /\ SameDerivation /\ last.k # kept.k
    /\ sig_privkey(last.k) # sig_privkey(kept.k)
    /\ last.result = kept.result /\ last.result.raised = "None"

\* C4: derive_path_key(path, false) is KECCAK256(private key || path), and
\* derive_path_key(path, true) is priv2pub of that value
C4_DeriveValue ==
    /\ last.op = "derive_path_key" =>
          LET seed == keccak_256(constructed[last.k].enc_privkey \o last.path)
          IN  Returned(last.result,
                       IF last.is_pub THEN priv2pub(pre[last.k], seed) ELSE seed)
    /\ ( /\ last.op = "derive_path_key" /\ kept.op = "derive_path_key"
         /\ last.k = kept.k /\ last.path = kept.path
         /\ last.is_pub /\ ~kept.is_pub )
          => Returned(last.result, priv2pub(pre[last.k], kept.result.value))
C4_Witness ==
    /\ last.op = "derive_path_key" /\ kept.op = "derive_path_key"
    /\ last.k = kept.k /\ last.path = kept.path /\ last.path # <<>>
    /\ last.is_pub /\ ~kept.is_pub
    /\ Returned(last.result, priv2pub(pre[last.k], kept.result.value))

\* C5: the four key accessors return, after any sequence of calls (failed
\* ones included), what they returned right after construction
C5_KeysNeverChange ==
    /\ KeysAsConstructed
    /\ last.op = "accessor" =>
          Returned(last.result, constructed[last.k][last.name])
C5_Witness ==
    /\ last.op = "verify" /\ last.pubkey.given
    /\ last.pubkey.bytes # sig_pubkey(last.k)
    /\ Raised(last.result, "InvalidSignatureOrKey")
    /\ KeysAsConstructed

\* the key a verify call checks against when its arguments are well-formed
CheckedKey(r) == IF r.pubkey.given THEN r.pubkey.bytes ELSE sig_pubkey(r.k)
\* the last call verified a well-formed signature that does not belong to
\* the message and key checked: other message, flipped bit, or other signer
Mismatched ==
    /\ last.op = "verify" /\ kept.op = "sign"
    /\ Len(last.signature) = SigLen
    /\ Len(CheckedKey(last)) = PubLen
    /\ \/ /\ last.signature = kept.result.value
          /\ last.message # kept.message
       \/ /\ last.signature = kept.result.value
          /\ CheckedKey(last) # sig_pubkey(kept.k)
       \/ \E i \in 1..SigLen : last.signature = Flip(kept.result.value, i)

\* C6: verify of a well-formed but mismatched signature returns false and
\* does not raise
C6_MismatchIsFalse == Mismatched => Returned(last.result, FALSE)
C6_Witness ==
    /\ Mismatched /\ last.signature = kept.result.value
    /\ last.message # kept.message /\ last.k = kept.k
    /\ Returned(last.result, FALSE)

\* a verify call with a public key or a signature of the wrong length
MalformedVerify ==
    /\ last.op = "verify"
    /\ \/ last.pubkey.given /\ Len(last.pubkey.bytes) # PubLen
       \/ Len(last.signature) # SigLen

\* C7: verify with a malformed (wrong-length, also zero-length) public key or
\* a malformed signature raises InvalidSignatureOrKey, never returns a boolean
C7_MalformedRaises ==
    MalformedVerify => Raised(last.result, "InvalidSignatureOrKey")

TamperedDecrypt ==
    /\ last.op = "decrypt" /\ kept.op = "encrypt"
    /\ last.ciphertext \in Tampered(kept.result.value)

\* C9: decrypt of a tampered ciphertext raises DecryptionFailed, returns no
\* plaintext, and leaves the keys as constructed
C9_TamperedFails ==
    TamperedDecrypt =>
        /\ last.result = Raise("DecryptionFailed")
        /\ KeysAsConstructed
C9_Witness ==
    /\ TamperedDecrypt /\ kept.k = last.k /\ kept.pubkey = None
    /\ last.ciphertext =
          Flip(kept.result.value, Len(kept.result.value))
    /\ Raised(last.result, "DecryptionFailed")

\* C10: secure_random(length) returns exactly length bytes for length >= 0
\* and raises InvalidLength, returning nothing, for length < 0
C10_RandomLength ==
    last.op = "secure_random" =>
        IF last.length >= 0
        THEN last.result.raised = "None" /\ Len(last.result.value) = last.length
        ELSE last.result = Raise("InvalidLength")
C10_Witness ==
    /\ last.op = "secure_random" /\ last.length = 0
    /\ Returned(last.result, <<>>)

====
